---- MODULE Spec2Model ----
(***************************************************************************)
(* Model of the Smart Task Organizer back end: the Task record (Task.js),  *)
(* the TaskRepository (TaskRepository.js) and the HTTP routes of server.js *)
(* that drive it.                                                          *)
(*                                                                         *)
(* A JavaScript object is a function from property names to values; a      *)
(* property that is missing from the domain reads as undefined.  JSON      *)
(* payloads cannot carry an explicit undefined, so a missing key is the    *)
(* only undefined the routes can see.                                      *)
(***************************************************************************)
EXTENDS Bags, Integers, Sequences, FiniteSets, TLC

VARIABLES
    tasks,       \* repo.tasks: the in-memory collection, in array order
    nextId,      \* repo.nextId
    tasksFile,   \* data/tasks.json: [kind, data]
    exportFile,  \* data/tasks_export.txt: [kind, text]
    running,     \* a server process is alive
    request,     \* the request served last
    response,    \* the response sent last
    repoResult,  \* what the repository call of the last request returned
    lifeIds,     \* history: ids loaded or assigned since the process started
    everIds,     \* history: ids assigned by any create, in any process
    deletedIds,  \* history: ids deleted since the process's last create
    pending      \* the handlers suspended in await parseRequestBody(req), a bag

vars == <<tasks, nextId, tasksFile, exportFile, running, request, response,
          repoResult, lifeIds, everIds, deletedIds,
          pending>>

----------------------------------------------------------------------------
(* Bounds of the model.                                                    *)

\* Largest id a create may assign under Spec and SpecLife.
MaxId == 2
\* Largest id a create may assign under SpecSort.
MaxSortId == 3
MaxPending == 2

----------------------------------------------------------------------------
(* JavaScript values.                                                      *)

JsNull == "<null>"
Undefined == "<undefined>"

\* The id field holds a number or is undefined; these two integers stand for
\* the values of it that are no task id: NaN, and undefined.
NaN == -1
UndefinedId == -2

EmptyObj == [k \in {} |-> Undefined]

\* { ...a, ...b }
Spread(a, b) ==
    [k \in (DOMAIN a) \cup (DOMAIN b) |-> IF k \in DOMAIN b THEN b[k] ELSE a[k]]

\* obj[k] for a string-valued property
Prop(obj, k) == IF k \in DOMAIN obj THEN obj[k] ELSE Undefined

\* !v for the values a title or a deadline can take
Falsy(v) == v \in {Undefined, JsNull, ""}

\* a || dflt
OrElse(v, dflt) == IF Falsy(v) THEN dflt ELSE v

\* `${v}`
TemplateStr(v) ==
    IF v = JsNull THEN "null" ELSE IF v = Undefined THEN "undefined" ELSE v

----------------------------------------------------------------------------
(* Task.js                                                                 *)

\* constructor({ id, title, description = '', deadline = null,
\*               priority = 'Low', status = 'ToDo' })
Task(o) ==
    [id          |-> IF "id" \in DOMAIN o THEN o.id ELSE UndefinedId,
     title       |-> Prop(o, "title"),
     description |-> IF "description" \in DOMAIN o THEN o.description ELSE "",
     deadline    |-> IF "deadline" \in DOMAIN o THEN o.deadline ELSE JsNull,
     priority    |-> IF "priority" \in DOMAIN o THEN o.priority ELSE "Low",
     status      |-> IF "status" \in DOMAIN o THEN o.status ELSE "ToDo"]

\* A slip of toJSON: the status is left out.
toJSON_NoStatus(t) ==
    [id |-> t.id, title |-> t.title, description |-> t.description,
     deadline |-> t.deadline, priority |-> t.priority]

\* toJSON(): the six fields as a plain object
toJSON(t) ==
    [id |-> t.id, title |-> t.title, description |-> t.description,
     deadline |-> t.deadline, priority |-> t.priority, status |-> t.status]

\* JSON.stringify of one toJSON() object, read back by JSON.parse: a property
\* whose value is undefined is not written.
JsonObject(o) ==
    [k \in {f \in DOMAIN o : IF f = "id" THEN o[f] # UndefinedId
                                         ELSE o[f] # Undefined} |-> o[k]]

Ids(ts) == {ts[i].id : i \in 1..Len(ts)}

\* this.tasks.findIndex((t) => t.id === id); 0 stands for -1
findIndex(ts, id) ==
    IF \E i \in 1..Len(ts) : ts[i].id = id
    THEN CHOOSE i \in 1..Len(ts) :
             ts[i].id = id /\ \A j \in 1..(i - 1) : ts[j].id # id
    ELSE 0

----------------------------------------------------------------------------
(* TaskRepository.js: the mutations.  Each returns the new collection and  *)
(* what the method returns.                                                *)

\* A slip of addTask: the counter is read but not advanced.
addTask_NoIncrement(ts, nid, data) ==
    LET task == Task(Spread(Spread([id |-> nid], data), [status |-> "ToDo"]))
    IN  [tasks |-> Append(ts, task), nextId |-> nid, task |-> task]

\* A slip of addTask: the forced status is the one markCompleted writes.
addTask_WrongStatus(ts, nid, data) ==
    LET task == Task(Spread(Spread([id |-> nid], data), [status |-> "Completed"]))
    IN  [tasks |-> Append(ts, task), nextId |-> nid + 1, task |-> task]

\* new Task({ id: this.nextId++, ...data, status: 'ToDo' }); push; return task
\* (NaN++ leaves NaN)
addTask(ts, nid, data) ==
    LET task == Task(Spread(Spread([id |-> nid], data), [status |-> "ToDo"]))
    IN  [tasks |-> Append(ts, task),
         nextId |-> IF nid = NaN THEN NaN ELSE nid + 1,
         task |-> task]

\* A slip of updateTask: the record is rebuilt from the updates alone, so
\* every field the payload leaves out falls back to the constructor default.
updateTask_FromUpdates(ts, id, updates) ==
    LET index == findIndex(ts, id) IN
    IF index = 0
    THEN [tasks |-> ts, found |-> FALSE, task |-> EmptyObj]
    ELSE LET existing == ts[index]
             updated  == Task(Spread(Spread([title |-> existing.title], updates),
                                     [id |-> existing.id]))
         IN  [tasks |-> [ts EXCEPT ![index] = updated],
              found |-> TRUE, task |-> updated]

\* A slip of updateTask: without the index === -1 return, a miss appends a
\* record built from the updates.
updateTask_NoCheck(ts, id, updates) ==
    LET index == findIndex(ts, id) IN
    IF index = 0
    THEN LET created == Task(Spread(updates, [id |-> id]))
         IN  [tasks |-> Append(ts, created), found |-> TRUE, task |-> created]
    ELSE LET existing == ts[index]
             updated  == Task(Spread(Spread(existing, updates),
                                     [id |-> existing.id]))
         IN  [tasks |-> [ts EXCEPT ![index] = updated],
              found |-> TRUE, task |-> updated]

\* index === -1 ? null : (this.tasks[index] =
\*     new Task({ ...existing, ...updates, id: existing.id }))
updateTask(ts, id, updates) ==
    LET index == findIndex(ts, id) IN
    IF index = 0
    THEN [tasks |-> ts, found |-> FALSE, task |-> EmptyObj]
    ELSE LET existing == ts[index]
             updated  == Task(Spread(Spread(existing, updates),
                                     [id |-> existing.id]))
         IN  [tasks |-> [ts EXCEPT ![index] = updated],
              found |-> TRUE, task |-> updated]

\* A slip of the removal: the last task is moved into the place of the one
\* removed.
splice1_SwapWithLast(ts, index) ==
    [i \in 1..(Len(ts) - 1) |-> IF i = index THEN ts[Len(ts)] ELSE ts[i]]

\* this.tasks.splice(index, 1)
splice1(ts, index) ==
    [i \in 1..(Len(ts) - 1) |-> IF i < index THEN ts[i] ELSE ts[i + 1]]

\* A slip of deleteTask: splice(-1, 1), which removes the last task.
deleteTask_SpliceLast(ts, id) ==
    LET index == findIndex(ts, id) IN
    IF index = 0
    THEN [tasks |-> ts, removed |-> FALSE]
    ELSE [tasks |-> splice1(ts, Len(ts)), removed |-> TRUE]

\* index === -1 ? false : (splice(index, 1), true)
deleteTask(ts, id) ==
    LET index == findIndex(ts, id) IN
    IF index = 0
    THEN [tasks |-> ts, removed |-> FALSE]
    ELSE [tasks |-> splice1(ts, index), removed |-> TRUE]

\* A slip of markCompleted: the status is switched, not set.
markCompleted_Toggle(ts, id) ==
    LET index == findIndex(ts, id) IN
    updateTask(ts, id, [status |-> IF index # 0 /\ ts[index].status = "Completed"
                                   THEN "ToDo" ELSE "Completed"])

\* return this.updateTask(id, { status: 'Completed' })
markCompleted(ts, id) == updateTask(ts, id, [status |-> "Completed"])

----------------------------------------------------------------------------
(* TaskRepository.js: getTasks.  Array.prototype.sort is the engine's; the *)
(* model follows Node's (V8's TimSort), which for an array shorter than 64 *)
(* elements finds the leading run and binary-inserts the rest.             *)

\* A slip of the filter: high-priority keeps whatever is not Low.
SelectSeqBy_NotLow(ts, filter) ==
    CASE filter = "completed"     -> SelectSeq(ts, LAMBDA t : t.status = "Completed")
      [] filter = "not-completed" -> SelectSeq(ts, LAMBDA t : t.status # "Completed")
      [] filter = "high-priority" -> SelectSeq(ts, LAMBDA t : t.priority # "Low")
      [] OTHER                    -> ts

\* A slip of the filter: a filter it does not know keeps nothing.
SelectSeqBy_UnknownKeepsNone(ts, filter) ==
    CASE filter = "completed"     -> SelectSeq(ts, LAMBDA t : t.status = "Completed")
      [] filter = "not-completed" -> SelectSeq(ts, LAMBDA t : t.status # "Completed")
      [] filter = "high-priority" -> SelectSeq(ts, LAMBDA t : t.priority = "High")
      [] filter = Undefined       -> ts
      [] OTHER                    -> <<>>

\* if (filter === 'completed') ... else if ('not-completed') ... else if
\* ('high-priority') ...; any other value leaves the copy as it is
SelectSeqBy(ts, filter) ==
    CASE filter = "completed"     -> SelectSeq(ts, LAMBDA t : t.status = "Completed")
      [] filter = "not-completed" -> SelectSeq(ts, LAMBDA t : t.status # "Completed")
      [] filter = "high-priority" -> SelectSeq(ts, LAMBDA t : t.priority = "High")
      [] OTHER                    -> ts

\* const order = { High: 0, Medium: 1, Low: 2 }; -1 stands for undefined
PriorityOrder(p) ==
    CASE p = "High" -> 0 [] p = "Medium" -> 1 [] p = "Low" -> 2 [] OTHER -> -1

\* new Date(d) as a number for the deadlines of the model; -1 stands for NaN
DateValue(d) ==
    CASE d = "2024-01-01" -> 1 [] d = "2024-06-01" -> 2 [] OTHER -> -1

\* The comparator's result as sort uses it: a NaN result counts as 0.
SortCompare(sortBy, a, b) ==
    IF sortBy = "deadline"
    THEN IF Falsy(a.deadline) THEN 1
         ELSE IF Falsy(b.deadline) THEN -1
         ELSE IF DateValue(a.deadline) = -1 \/ DateValue(b.deadline) = -1 THEN 0
         ELSE DateValue(a.deadline) - DateValue(b.deadline)
    ELSE IF PriorityOrder(a.priority) = -1 \/ PriorityOrder(b.priority) = -1 THEN 0
         ELSE PriorityOrder(a.priority) - PriorityOrder(b.priority)

RECURSIVE RunEnd(_, _, _, _)
\* Length of the run that starts at the first element: descending runs are
\* strict, ascending runs allow equal neighbours.
RunEnd(s, sortBy, descending, idx) ==
    IF idx > Len(s) THEN Len(s)
    ELSE LET order == SortCompare(sortBy, s[idx], s[idx - 1]) IN
         IF (descending /\ order >= 0) \/ (~descending /\ order < 0)
         THEN idx - 1
         ELSE RunEnd(s, sortBy, descending, idx + 1)

ReversePrefix(s, n) == [i \in 1..Len(s) |-> IF i <= n THEN s[n + 1 - i] ELSE s[i]]

RECURSIVE InsertionPoint(_, _, _, _, _)
\* The binary search of the insertion sort, over s[left..right-1].
InsertionPoint(s, sortBy, pivot, left, right) ==
    IF left >= right THEN left
    ELSE LET mid == left + ((right - left) \div 2) IN
         IF SortCompare(sortBy, pivot, s[mid]) < 0
         THEN InsertionPoint(s, sortBy, pivot, left, mid)
         ELSE InsertionPoint(s, sortBy, pivot, mid + 1, right)

RECURSIVE BinaryInsertionSort(_, _, _)
BinaryInsertionSort(s, sortBy, start) ==
    IF start > Len(s) THEN s
    ELSE LET pivot == s[start]
             left  == InsertionPoint(s, sortBy, pivot, 1, start)
             moved == [i \in 1..Len(s) |->
                          IF i < left \/ i > start THEN s[i]
                          ELSE IF i = left THEN pivot ELSE s[i - 1]]
         IN  BinaryInsertionSort(moved, sortBy, start + 1)

\* result.sort(comparator)
ArraySort(s, sortBy) ==
    IF Len(s) < 2 THEN s
    ELSE LET descending == SortCompare(sortBy, s[2], s[1]) < 0
             runLength  == RunEnd(s, sortBy, descending, 3)
             run        == IF descending THEN ReversePrefix(s, runLength) ELSE s
         IN  BinaryInsertionSort(run, sortBy, runLength + 1)

\* A slip of getTasks: the sort starts from a fresh copy of this.tasks.
getTasks_SortsAll(ts, sortBy, filter) ==
    LET result == SelectSeqBy(ts, filter) IN
    IF sortBy \in {"deadline", "priority"} THEN ArraySort(ts, sortBy) ELSE result

\* getTasks({ sortBy, filter }): filter the copy, then sort it
getTasks(ts, sortBy, filter) ==
    LET result == SelectSeqBy(ts, filter) IN
    IF sortBy \in {"deadline", "priority"} THEN ArraySort(result, sortBy) ELSE result

\* A slip of getTasks: result is this.tasks itself, so a sort that no filter
\* precedes (filter() returns a new array) sorts the collection in place.
getTasks_thisTasks_NoCopy(ts, sortBy, filter) ==
    IF filter \in {"completed", "not-completed", "high-priority"}
    THEN ts
    ELSE IF sortBy \in {"deadline", "priority"} THEN ArraySort(ts, sortBy) ELSE ts

\* this.tasks after getTasks({ sortBy, filter }): result is a copy
\* ([...this.tasks]), filter() makes further copies and sort() works in place
\* on the copy, so the collection is what it was.
getTasks_thisTasks(ts, sortBy, filter) == ts

----------------------------------------------------------------------------
(* TaskRepository.js: load and save.  A file is [kind, data]: kind is      *)
(* "absent", "array" (a JSON array of objects, in data) or "malformed"     *)
(* (content on which JSON.parse, data.map or new Task throws: no JSON, no  *)
(* array, an array that holds null).                                        *)

AbsentFile == [kind |-> "absent", data |-> <<>>]

RECURSIVE MaxIdOf(_)
\* this.tasks.reduce((acc, t) => Math.max(acc, t.id), 0): Math.max is NaN
\* as soon as one argument is undefined or NaN
MaxIdOf(ts) ==
    IF Len(ts) = 0 THEN 0
    ELSE LET rest == MaxIdOf(Tail(ts)) IN
         IF rest = NaN \/ ts[1].id \in {NaN, UndefinedId} THEN NaN
         ELSE IF ts[1].id > rest THEN ts[1].id ELSE rest

\* The constructor's tasks = [], nextId = 1, then load()
load(file) ==
    CASE file.kind = "array" ->
            LET loaded == [i \in 1..Len(file.data) |-> Task(file.data[i])]
                maxId  == MaxIdOf(loaded)
            IN  [tasks |-> loaded,
                 nextId |-> IF maxId = NaN THEN NaN ELSE maxId + 1]
      [] file.kind = "absent"    -> [tasks |-> <<>>, nextId |-> 1]
      [] file.kind = "malformed" -> [tasks |-> <<>>, nextId |-> 1]

\* What save() leaves in tasks.json: the write either replaces the file or
\* throws, and the throw is logged and swallowed.
save(ts, file, writeOk) ==
    IF writeOk
    THEN [kind |-> "array",
          data |-> [i \in 1..Len(ts) |-> JsonObject(toJSON(ts[i]))]]
    ELSE file

\* The export text: one block of six lines per task, in store order.
ExportText(ts) ==
    [i \in 1..Len(ts) |->
        <<"ID: " \o (CASE ts[i].id = UndefinedId -> "undefined"
                        [] ts[i].id = NaN -> "NaN"
                        [] OTHER -> ToString(ts[i].id)),
          "Title: " \o TemplateStr(ts[i].title),
          "Description: " \o TemplateStr(ts[i].description),
          "Deadline: " \o TemplateStr(ts[i].deadline),
          "Priority: " \o TemplateStr(ts[i].priority),
          "Status: " \o TemplateStr(ts[i].status)>>]

----------------------------------------------------------------------------
(* server.js: requests and responses.                                      *)

\* What parseRequestBody resolves to: null for an empty or unparseable
\* body, the parsed object otherwise.
NullBody == [null |-> TRUE, obj |-> EmptyObj]
Body(o) == [null |-> FALSE, obj |-> o]

TasksPath == "/tasks"
ItemPath == "/tasks/:id"
CompletePath == "/tasks/:id/complete"
ExportPath == "/tasks/export"

Request(method, path, id, body, sortBy, filter) ==
    [method |-> method, path |-> path, id |-> id, body |-> body,
     sortBy |-> sortBy, filter |-> filter]

\* sendJson(res, status, { message }) and sendJson(res, status, task or list)
Message(status, message) == [status |-> status, message |-> message, body |-> <<>>]
Json(status, list) == [status |-> status, message |-> "", body |-> list]

\* !body || !body.title
TitleMissing_BodyOnly(body) == body.null

TitleMissing(body) == body.null \/ Falsy(Prop(body.obj, "title"))

\* A slip of PostData: the priority falls back to Low only when it is
\* missing, as description and deadline do.
PostData_PriorityOrLow(body) ==
    [title       |-> Prop(body.obj, "title"),
     description |-> OrElse(Prop(body.obj, "description"), ""),
     deadline    |-> OrElse(Prop(body.obj, "deadline"), JsNull),
     priority    |-> OrElse(Prop(body.obj, "priority"), "Low")]

\* The object the POST route hands to addTask.
PostData(body) ==
    [title       |-> Prop(body.obj, "title"),
     description |-> OrElse(Prop(body.obj, "description"), ""),
     deadline    |-> OrElse(Prop(body.obj, "deadline"), JsNull),
     priority    |-> IF Prop(body.obj, "priority") \in {"High", "Medium", "Low"}
                     THEN body.obj.priority ELSE "Low"]

\* The updates object the PUT route builds: the five fields, each only if
\* the body has it.
PutUpdates(body) ==
    [k \in (DOMAIN body.obj) \cap
           {"title", "description", "deadline", "priority", "status"}
       |-> body.obj[k]]

Init ==
    /\ tasks = <<>>
    /\ nextId = 1
    /\ tasksFile = AbsentFile
    /\ exportFile = [kind |-> "absent", text |-> <<>>]
    /\ running = TRUE
    /\ request = Request("NONE", "", 0, NullBody, Undefined, Undefined)
    /\ response = Message(0, "")
    /\ repoResult = "none"
    /\ lifeIds = {}
    /\ everIds = {}
    /\ deletedIds = {}
    /\ pending = EmptyBag

\* POST /tasks, from the point where parseRequestBody has resolved
HandlePost(bodies, maxId) ==
    /\ running
    /\ \E body \in bodies :
        /\ request' = Request("POST", TasksPath, 0, body, Undefined, Undefined)
        /\ IF TitleMissing(body)
           THEN /\ response' = Message(400, "Title is required")
                /\ repoResult' = "none"
                /\ UNCHANGED <<tasks, nextId, lifeIds, everIds, deletedIds>>
           ELSE /\ \/ nextId \in 1..maxId
                   \/ nextId = NaN /\ Len(tasks) < maxId
                /\ LET r == addTask(tasks, nextId, PostData(body)) IN
                    /\ tasks' = r.tasks
                    /\ nextId' = r.nextId
                    /\ response' = Json(201, <<toJSON(r.task)>>)
                    /\ repoResult' = "task"
                    /\ lifeIds' = lifeIds \cup {r.task.id}
                    /\ everIds' = everIds \cup {r.task.id}
                    /\ deletedIds' = {}
    /\ UNCHANGED <<tasksFile, exportFile, running>>

\* POST /tasks whose body is read before anything else happens
PostTasks(bodies, maxId) == HandlePost(bodies, maxId) /\ UNCHANGED pending

\* The paths idMatch accepts: /tasks/:id, and /tasks/:id/complete as well.
IdPaths == {ItemPath, CompletePath}

\* PUT on a path idMatch accepts.  A null body makes body.title throw, which
\* the handler's catch answers with 500.
HandlePut(paths, ids, bodies) ==
    /\ running
    /\ \E id \in ids, path \in paths \cap IdPaths, body \in bodies :
        /\ request' = Request("PUT", path, id, body, Undefined, Undefined)
        /\ IF body.null
           THEN /\ response' = Message(500, "Server error")
                /\ repoResult' = "none"
                /\ UNCHANGED tasks
           ELSE LET r == updateTask(tasks, id, PutUpdates(body)) IN
                /\ tasks' = r.tasks
                /\ repoResult' = IF r.found THEN "task" ELSE "null"
                /\ response' = IF r.found THEN Json(200, <<toJSON(r.task)>>)
                                          ELSE Message(404, "Task not found")
    /\ UNCHANGED <<nextId, tasksFile, exportFile, running, lifeIds, everIds, deletedIds>>

\* PUT whose body is read before anything else happens
PutTask(paths, bodies, maxId) ==
    HandlePut(paths, 1..(maxId + 1), bodies) /\ UNCHANGED pending

\* A handler suspended in await parseRequestBody(req); arrivedAt is history:
\* nextId when a POST /tasks arrived (0 for another request).
Handler(method, path, id, body, arrivedAt) ==
    [method |-> method, path |-> path, id |-> id, body |-> body,
     arrivedAt |-> arrivedAt]

\* A POST /tasks arrives: its handler runs up to the await and suspends
\* until the body has been received.
ArrivePost(bodies, maxPending) ==
    /\ running
    /\ BagCardinality(pending) < maxPending
    /\ \E body \in bodies :
          pending' = pending (+) SetToBag({Handler("POST", TasksPath, 0, body, nextId)})
    /\ UNCHANGED <<tasks, nextId, tasksFile, exportFile, running, request, response,
                   repoResult, lifeIds, everIds, deletedIds>>

\* A PUT arrives on a path idMatch accepts: the same, up to its await.
ArrivePut(paths, ids, bodies, maxPending) ==
    /\ running
    /\ BagCardinality(pending) < maxPending
    /\ \E id \in ids, path \in paths \cap IdPaths, body \in bodies :
          pending' = pending (+) SetToBag({Handler("PUT", path, id, body, 0)})
    /\ UNCHANGED <<tasks, nextId, tasksFile, exportFile, running, request, response,
                   repoResult, lifeIds, everIds, deletedIds>>

\* A slip of the POST route: the id is read from the repository before the
\* await and the task is stored under it afterwards.
ResumePost_StaleId(maxId) ==
    /\ running
    /\ \E h \in BagToSet(pending) :
        /\ h.method = "POST"
        /\ pending' = pending (-) SetToBag({h})
        /\ request' = Request("POST", TasksPath, 0, h.body, Undefined, Undefined)
        /\ IF TitleMissing(h.body)
           THEN /\ response' = Message(400, "Title is required")
                /\ repoResult' = "none"
                /\ UNCHANGED <<tasks, nextId, lifeIds, everIds, deletedIds>>
           ELSE /\ nextId \in 1..maxId
                /\ LET r == addTask(tasks, h.arrivedAt, PostData(h.body)) IN
                    /\ tasks' = r.tasks
                    /\ nextId' = r.nextId
                    /\ response' = Json(201, <<toJSON(r.task)>>)
                    /\ repoResult' = "task"
                    /\ lifeIds' = lifeIds \cup {r.task.id}
                    /\ everIds' = everIds \cup {r.task.id}
                    /\ deletedIds' = {}
    /\ UNCHANGED <<tasksFile, exportFile, running>>

\* The body of a suspended POST /tasks has been received: the handler goes
\* on from the await to its return, in one turn of the event loop.
ResumePost(maxId) ==
    \E h \in BagToSet(pending) :
        /\ h.method = "POST"
        /\ HandlePost({h.body}, maxId)
        /\ pending' = pending (-) SetToBag({h})

\* The same for a suspended PUT.
ResumePut ==
    \E h \in BagToSet(pending) :
        /\ h.method = "PUT"
        /\ HandlePut({h.path}, {h.id}, {h.body})
        /\ pending' = pending (-) SetToBag({h})

\* DELETE on a path idMatch accepts.
DeleteTask(paths, maxId) ==
    /\ running
    /\ \E id \in 1..(maxId + 1), path \in paths \cap IdPaths :
        /\ request' = Request("DELETE", path, id, NullBody, Undefined, Undefined)
        /\ LET r == deleteTask(tasks, id) IN
            /\ tasks' = r.tasks
            /\ repoResult' = IF r.removed THEN "true" ELSE "false"
            /\ response' = IF r.removed THEN Message(204, "")
                                        ELSE Message(404, "Task not found")
            /\ deletedIds' = IF r.removed THEN deletedIds \cup {id} ELSE deletedIds
    /\ UNCHANGED <<nextId, tasksFile, exportFile, running, lifeIds, everIds, pending>>

\* POST /tasks/:id/complete
CompleteTask(maxId) ==
    /\ running
    /\ \E id \in 1..(maxId + 1) :
        /\ request' = Request("POST", CompletePath, id, NullBody, Undefined, Undefined)
        /\ LET r == markCompleted(tasks, id) IN
            /\ tasks' = r.tasks
            /\ repoResult' = IF r.found THEN "task" ELSE "null"
            /\ response' = IF r.found THEN Json(200, <<toJSON(r.task)>>)
                                      ELSE Message(404, "Task not found")
    /\ UNCHANGED <<nextId, tasksFile, exportFile, running, lifeIds, everIds, deletedIds,
                   pending>>

\* GET /tasks?sortBy=..&filter=..
ListTasks(sortBys, filters) ==
    /\ running
    /\ \E sortBy \in sortBys, filter \in filters :
        /\ request' = Request("GET", TasksPath, 0, NullBody, sortBy, filter)
        /\ LET result == getTasks(tasks, sortBy, filter) IN
           response' = Json(200, [i \in 1..Len(result) |-> toJSON(result[i])])
        /\ tasks' = getTasks_thisTasks(tasks, sortBy, filter)
    /\ repoResult' = "list"
    /\ UNCHANGED <<nextId, tasksFile, exportFile, running,
                   lifeIds, everIds, deletedIds, pending>>

\* GET /tasks/export: renders getTasks(), writes tasks_export.txt (a failed
\* write is logged and ignored) and sends the text.
ExportTasks(writeOks) ==
    /\ running
    /\ \E writeOk \in writeOks :
        LET text == ExportText(getTasks(tasks, Undefined, Undefined)) IN
        /\ request' = Request("GET", ExportPath, 0, NullBody, Undefined, Undefined)
        /\ exportFile' = IF writeOk THEN [kind |-> "text", text |-> text]
                                    ELSE exportFile
        /\ response' = [status |-> 200, message |-> "", body |-> text]
    /\ tasks' = getTasks_thisTasks(tasks, Undefined, Undefined)
    /\ repoResult' = "list"
    /\ UNCHANGED <<nextId, tasksFile, running, lifeIds, everIds, deletedIds, pending>>

\* repo.addTask(data) called by the code that holds the repository, with a
\* data object of the caller's making.
RepoAddTask(datas, maxId) ==
    /\ running
    /\ nextId \in 1..maxId
    /\ \E data \in datas :
        LET r == addTask(tasks, nextId, data) IN
        /\ request' = Request("addTask", "", 0, Body(data), Undefined, Undefined)
        /\ tasks' = r.tasks
        /\ nextId' = r.nextId
        /\ response' = Json(0, <<toJSON(r.task)>>)
        /\ repoResult' = "task"
        /\ lifeIds' = lifeIds \cup {r.task.id}
        /\ everIds' = everIds \cup {r.task.id}
        /\ deletedIds' = {}
    /\ UNCHANGED <<tasksFile, exportFile, running, pending>>

\* A slip of save: no try/catch, so a failing write is an uncaught exception
\* in the caller and ends the process.
RepoSave_Uncaught(writeOks) ==
    /\ running
    /\ \E writeOk \in writeOks :
        /\ tasksFile' = save(tasks, tasksFile, writeOk)
        /\ running' = writeOk
        /\ response' = Message(0, IF writeOk THEN "" ELSE "Error saving tasks:")
    /\ request' = Request("SAVE", "", 0, NullBody, Undefined, Undefined)
    /\ repoResult' = "none"
    /\ UNCHANGED <<tasks, nextId, exportFile, lifeIds, everIds, deletedIds, pending>>

\* repo.save() called by the code that holds the repository, in a process
\* that goes on: a failing write is caught and logged with console.error,
\* and save returns.
RepoSave(writeOks) ==
    /\ running
    /\ \E writeOk \in writeOks :
        /\ tasksFile' = save(tasks, tasksFile, writeOk)
        /\ response' = Message(0, IF writeOk THEN "" ELSE "Error saving tasks:")
    /\ request' = Request("SAVE", "", 0, NullBody, Undefined, Undefined)
    /\ repoResult' = "none"
    /\ UNCHANGED <<tasks, nextId, exportFile, running, lifeIds, everIds, deletedIds,
                   pending>>

\* A slip of gracefulExit: process.exit(0) comes before repo.save().
gracefulExit_ExitFirst(writeOks) ==
    /\ running
    /\ running' = FALSE
    /\ request' = Request("SIGNAL", "", 0, NullBody, Undefined, Undefined)
    /\ response' = Message(0, "")
    /\ repoResult' = "none"
    /\ UNCHANGED <<tasks, nextId, tasksFile, exportFile, lifeIds, everIds, deletedIds,
                   pending>>

\* SIGINT or SIGTERM: repo.save(), then process.exit(0)
gracefulExit(writeOks) ==
    /\ running
    /\ \E writeOk \in writeOks : tasksFile' = save(tasks, tasksFile, writeOk)
    /\ running' = FALSE
    /\ request' = Request("SIGNAL", "", 0, NullBody, Undefined, Undefined)
    /\ response' = Message(0, "")
    /\ repoResult' = "none"
    /\ UNCHANGED <<tasks, nextId, exportFile, lifeIds, everIds, deletedIds, pending>>

\* node server.js: new TaskRepository() on the same data directory
Start ==
    /\ ~running
    /\ LET r == load(tasksFile) IN
        /\ tasks' = r.tasks
        /\ nextId' = r.nextId
        /\ lifeIds' = Ids(r.tasks)
        /\ deletedIds' = {}
    /\ running' = TRUE
    /\ request' = Request("START", "", 0, NullBody, Undefined, Undefined)
    /\ response' = Message(0, "")
    /\ repoResult' = "none"
    /\ UNCHANGED <<tasksFile, exportFile, everIds, pending>>

----------------------------------------------------------------------------
(* Inputs and specifications.                                              *)

Create1 == [title |-> "a"]
Create2 == [title |-> "b", description |-> "d", deadline |-> "2024-01-01",
            priority |-> "High", status |-> "Completed"]
NoTitle == [description |-> "d"]
EmptyTitle == [title |-> "", priority |-> "High"]
CreateUrgent == [title |-> "a", priority |-> "Urgent"]

PostBodies == {NullBody, Body(NoTitle), Body(EmptyTitle), Body(Create1), Body(Create2),
               Body(CreateUrgent)}
PutBodies == {NullBody, Body([title |-> "c", description |-> "e"]), Body([title |-> ""])}

\* One process, started on an empty data directory, serving the task routes.
Next ==
    \/ PostTasks(PostBodies, MaxId)
    \/ PutTask({ItemPath}, PutBodies, MaxId)
    \/ DeleteTask({ItemPath}, MaxId)
    \/ CompleteTask(MaxId)
    \/ ListTasks({Undefined, "priority"}, {Undefined})

Spec == Init /\ [][Next]_vars

\* Processes that stop on a signal and start again on the same directory,
\* on a disk whose writes succeed.
NextLife ==
    \/ PostTasks({NullBody, Body(Create1)}, MaxId)
    \/ DeleteTask({ItemPath}, MaxId)
    \/ CompleteTask(MaxId)
    \/ ExportTasks({TRUE})
    \/ gracefulExit({TRUE})
    \/ Start

SpecLife == Init /\ [][NextLife]_vars

\* One process whose tasks take every priority the routes can store.
NextSort ==
    \/ PostTasks({Body(Create1), Body(Create2)}, MaxSortId)
    \/ PutTask({ItemPath}, {Body([priority |-> "Urgent"])}, MaxSortId)
    \/ DeleteTask({ItemPath}, MaxSortId)
    \/ CompleteTask(MaxSortId)
    \/ ListTasks({"priority"}, {Undefined, "high-priority"})

SpecSort == Init /\ [][NextSort]_vars

\* The values of the sortBy and filter query parameters: unset, the ones
\* getTasks knows, and one it does not know.
QuerySortBys == {Undefined, "deadline", "priority", "title"}
QueryFilters == {Undefined, "completed", "not-completed", "high-priority", "bogus"}

Create3 == [title |-> "c", deadline |-> "2024-06-01", priority |-> "Medium"]
CreateSoon == [title |-> "a", deadline |-> "soon"]

\* One process answering every query on collections of tasks of both
\* statuses, the three priorities, two deadlines and none.
NextQuery ==
    \/ PostTasks({Body(Create1), Body(Create2), Body(Create3)}, MaxSortId)
    \/ CompleteTask(MaxSortId)
    \/ ListTasks(QuerySortBys, QueryFilters)

SpecQuery == Init /\ [][NextQuery]_vars

\* One process whose tasks take every kind of deadline a create can store.
NextDeadline ==
    \/ PostTasks({Body(Create1), Body(Create2), Body(Create3), Body(CreateSoon)},
                 MaxSortId)
    \/ DeleteTask({ItemPath}, MaxSortId)
    \/ ListTasks({"deadline"}, {Undefined, "not-completed"})

SpecDeadline == Init /\ [][NextDeadline]_vars

\* Processes that create, update and complete tasks, stop on a signal and
\* start again on the same directory, on a disk whose writes succeed.
NextRound ==
    \/ PostTasks({Body(Create1), Body(Create2)}, MaxId)
    \/ PutTask({ItemPath}, {Body([description |-> JsNull, priority |-> "Urgent"])}, MaxId)
    \/ CompleteTask(MaxId)
    \/ gracefulExit({TRUE})
    \/ Start

SpecRound == Init /\ [][NextRound]_vars

\* One process whose repository is also saved while it runs, on a disk
\* whose writes can fail.
NextSave ==
    \/ PostTasks({Body(Create1)}, MaxId)
    \/ PutTask({ItemPath}, {Body([title |-> "c"])}, MaxId)
    \/ DeleteTask({ItemPath}, MaxId)
    \/ ListTasks({Undefined}, {Undefined})
    \/ RepoSave({TRUE, FALSE})

SpecSave == Init /\ [][NextSave]_vars

\* One process whose requests arrive while the handlers of earlier ones
\* are still waiting for their bodies.
NextConcurrent ==
    \/ ArrivePost({Body(Create1)}, MaxPending)
    \/ ArrivePut({ItemPath}, 1..MaxId, {Body([title |-> "c"])}, MaxPending)
    \/ ResumePost(MaxId)
    \/ ResumePut
    \/ DeleteTask({ItemPath}, MaxId)
    \/ CompleteTask(MaxId)
    \/ ListTasks({Undefined}, {Undefined})

SpecConcurrent == Init /\ [][NextConcurrent]_vars

\* One process whose repository also gets addTask calls with data objects
\* that the POST route would not build: with an id of their own.
NextRepo ==
    \/ RepoAddTask({[title |-> "a"], [id |-> 1, title |-> "x"],
                    [id |-> 5, title |-> "y", priority |-> "High"]}, MaxId)
    \/ PutTask({ItemPath}, {Body([title |-> "c"])}, MaxId)
    \/ DeleteTask({ItemPath}, MaxId)
    \/ CompleteTask(MaxId)
    \/ ListTasks({Undefined}, {Undefined})

SpecRepo == Init /\ [][NextRepo]_vars

\* One process that gets PUT and DELETE requests on both paths that carry
\* an id.
NextRoute ==
    \/ PostTasks({Body(Create1), Body(Create2)}, MaxId)
    \/ PutTask(IdPaths, {Body([title |-> "c"])}, MaxId)
    \/ DeleteTask(IdPaths, MaxId)
    \/ CompleteTask(MaxId)

SpecRoute == Init /\ [][NextRoute]_vars

\* One process that creates, updates, completes and deletes tasks, with
\* collections long enough for a delete to leave two tasks.
NextOrder ==
    \/ PostTasks({Body(Create1)}, MaxSortId)
    \/ PutTask({ItemPath}, {Body([title |-> "c"])}, MaxSortId)
    \/ DeleteTask({ItemPath}, MaxSortId)
    \/ CompleteTask(MaxSortId)

SpecOrder == Init /\ [][NextOrder]_vars

Record1 == [id |-> 1, title |-> "a", description |-> "", deadline |-> JsNull,
            priority |-> "Low", status |-> "ToDo"]
Record2 == [id |-> 2, title |-> "b", description |-> "d", deadline |-> "2024-01-01",
            priority |-> "High", status |-> "Completed"]
ArrayFile(data) == [kind |-> "array", data |-> data]

\* What tasks.json can hold when a process starts: nothing, no JSON, arrays
\* of task records, and arrays with an object that has no id, or no field
\* at all.
InitFiles ==
    {AbsentFile, [kind |-> "malformed", data |-> <<>>],
     ArrayFile(<<>>), ArrayFile(<<Record1>>), ArrayFile(<<Record2, Record1>>),
     ArrayFile(<<[title |-> "x"]>>), ArrayFile(<<Record1, EmptyObj>>)}

\* No process yet, on a data directory in any of these conditions.
InitFromDisk ==
    /\ tasks = <<>>
    /\ nextId = 1
    /\ tasksFile \in InitFiles
    /\ exportFile = [kind |-> "absent", text |-> <<>>]
    /\ running = FALSE
    /\ request = Request("NONE", "", 0, NullBody, Undefined, Undefined)
    /\ response = Message(0, "")
    /\ repoResult = "none"
    /\ lifeIds = {}
    /\ everIds = {}
    /\ deletedIds = {}
    /\ pending = EmptyBag

\* One process started on such a directory, serving the task routes.
NextFromDisk ==
    \/ Start
    \/ PostTasks({Body(Create1)}, MaxId)
    \/ DeleteTask({ItemPath}, MaxId)
    \/ CompleteTask(MaxId)
    \/ ListTasks({Undefined}, {Undefined, "completed"})

SpecInit == InitFromDisk /\ [][NextFromDisk]_vars

----------------------------------------------------------------------------
(* Claims.                                                                 *)

Created == request.method = "POST" /\ request.path = TasksPath /\ response.status = 201

\* C1: in every state of a running process, also after any number of saves
\* on exit and fresh loads, nextId is greater than every id a create has
\* ever assigned, so no id is assigned twice.
C1_NextIdAboveEveryAssignedId ==
    running => \A i \in everIds : nextId > i

\* C2: within one process, the id of every newly created task is greater
\* than every id loaded or assigned before it in that process, and no two
\* tasks of the collection share an id, deletes between the creates included.
C2_CreatedIdsFreshAndUnique ==
    [][running' =>
        /\ (running /\ Created') =>
               /\ \A i \in lifeIds : response'.body[1].id > i
               /\ tasks'[Len(tasks')].id = response'.body[1].id
        /\ \A i, j \in 1..Len(tasks') : i # j => tasks'[i].id # tasks'[j].id]_vars

\* A create that follows the delete of an earlier task, in a process that
\* loaded its tasks from the file of the one before.
C2_Witness ==
    /\ running /\ Created
    /\ tasksFile.kind = "array" /\ Len(tasksFile.data) = 1
    /\ lifeIds = {1, 2} /\ Ids(tasks) = {2}

UpdatableFields == {"title", "description", "deadline", "priority", "status"}

\* C3: a PUT that finds its task changes, of that task, exactly the fields
\* its payload holds: every other field keeps its stored value (so a payload
\* of title and description leaves id, deadline, priority and status), every
\* other task is unchanged and so are the collection's order and nextId.
C3_UpdateChangesOnlyPayloadFields ==
    [][(request'.method = "PUT" /\ response'.status = 200) =>
        /\ nextId' = nextId
        /\ Len(tasks') = Len(tasks)
        /\ \A i \in 1..Len(tasks) :
              IF tasks[i].id # request'.id
              THEN tasks'[i] = tasks[i]
              ELSE \A f \in DOMAIN tasks[i] :
                      tasks'[i][f] =
                          IF f \in UpdatableFields \cap DOMAIN request'.body.obj
                          THEN request'.body.obj[f] ELSE tasks[i][f]]_vars

\* A title-and-description PUT on a task whose other fields are not the
\* constructor's defaults, with another task beside it.
C3_Witness ==
    /\ request.method = "PUT" /\ response.status = 200
    /\ DOMAIN request.body.obj = {"title", "description"}
    /\ Len(tasks) = 2
    /\ \E i \in 1..Len(tasks) :
          /\ tasks[i].id = request.id
          /\ tasks[i].title = "c" /\ tasks[i].description = "e"
          /\ tasks[i].deadline = "2024-01-01"
          /\ tasks[i].priority = "High"
          /\ tasks[i].status = "Completed"

\* C4: every task in the collection has a non-empty title.
C4_EveryTitleNonEmpty ==
    \A i \in 1..Len(tasks) : ~Falsy(tasks[i].title)

\* Position in the collection of the task with this id.
PositionOf(id) == findIndex(tasks, id)

\* C5: the list a GET /tasks?sortBy=priority returns has every High task
\* before every Medium task before every Low task, and tasks of the same
\* priority in their collection order.
C5_PrioritySortOrdersTiers ==
    (request.method = "GET" /\ request.path = TasksPath /\ request.sortBy = "priority") =>
        \A i, j \in 1..Len(response.body) :
            i < j =>
                LET a == response.body[i]
                    b == response.body[j]
                IN  /\ b.priority = "High" => a.priority \notin {"Medium", "Low"}
                    /\ b.priority = "Medium" => a.priority # "Low"
                    /\ a.priority = b.priority => PositionOf(a.id) < PositionOf(b.id)

\* C6: after an export, tasks.json holds the current collection (stated for
\* the exports of a collection that is not empty).
C6_ExportWritesTasksFile ==
    (running /\ request.method = "GET" /\ request.path = ExportPath /\ Len(tasks) > 0) =>
        tasksFile = save(tasks, tasksFile, TRUE)

\* The request reaches updateTask, deleteTask or markCompleted.
CallsUpdate(req) == req.method = "PUT" /\ ~req.body.null
CallsDelete(req) == req.method = "DELETE"
CallsComplete(req) == req.method = "POST" /\ req.path = CompletePath

\* C7: updateTask and markCompleted called with an id that is not in the
\* collection return null, deleteTask returns false, and each leaves the
\* collection and nextId as they were.
C7_UnknownIdChangesNothing ==
    [][((CallsUpdate(request') \/ CallsDelete(request') \/ CallsComplete(request'))
          /\ request'.id \notin Ids(tasks)) =>
        /\ tasks' = tasks
        /\ nextId' = nextId
        /\ repoResult' = IF CallsDelete(request') THEN "false" ELSE "null"]_vars

\* An update that missed, on a collection that holds other tasks.
C7_Witness ==
    /\ CallsUpdate(request) /\ repoResult = "null"
    /\ Len(tasks) = 2 /\ request.id \notin Ids(tasks)

\* C8: a POST /tasks whose body is missing, or has no title or an empty one,
\* is answered 400 and changes neither the collection nor nextId.
C8_RejectedCreateAppliesNothing ==
    [][(/\ request'.method = "POST" /\ request'.path = TasksPath
        /\ \/ request'.body.null
           \/ "title" \notin DOMAIN request'.body.obj
           \/ request'.body.obj.title = "") =>
        /\ response' = Message(400, "Title is required")
        /\ tasks' = tasks
        /\ nextId' = nextId]_vars

\* A create rejected for its empty title, after an accepted one.
C8_Witness ==
    /\ request.method = "POST" /\ request.path = TasksPath
    /\ ~request.body.null /\ Prop(request.body.obj, "title") = ""
    /\ response.status = 400
    /\ Len(tasks) = 1 /\ nextId = 2

\* C9: a PUT, a DELETE and a complete whose id is not in the collection are
\* each answered 404 'Task not found', whatever the body.
C9_UnknownIdAnswered404 ==
    [][((request'.method \in {"PUT", "DELETE"} \/ CallsComplete(request'))
          /\ request'.id \notin Ids(tasks)) =>
        response' = Message(404, "Task not found")]_vars

\* C10: the task a create returns and stores has status ToDo, whatever the
\* payload's status; and a task has another status only if it had it before
\* the step or the step is a PUT or a complete on that task.
C10_StatusToDoUntilUpdated ==
    [][/\ Created' =>
            /\ response'.body[1].status = "ToDo"
            /\ tasks'[Len(tasks')] = response'.body[1]
            /\ Len(tasks') = Len(tasks) + 1
       /\ \A i \in 1..Len(tasks') :
            tasks'[i].status # "ToDo" =>
                \/ \E j \in 1..Len(tasks) :
                      tasks[j].id = tasks'[i].id /\ tasks[j].status = tasks'[i].status
                \/ /\ request'.method = "PUT" \/ CallsComplete(request')
                   /\ request'.id = tasks'[i].id]_vars

\* A create whose payload asks for status Completed.
C10_Witness ==
    /\ Created
    /\ Prop(request.body.obj, "status") = "Completed"
    /\ tasks[Len(tasks)].status = "ToDo"

\* C11: the task a create stores and returns has the payload's priority if
\* that is High, Medium or Low, and Low if it is anything else or missing;
\* its description is the empty string and its deadline null when the
\* payload has none.
C11_CreateNormalisesPriority ==
    [][Created' =>
        LET payload == request'.body.obj
            task    == response'.body[1]
        IN  /\ tasks'[Len(tasks')] = task
            /\ task.priority = IF "priority" \in DOMAIN payload
                                  /\ payload.priority \in {"High", "Medium", "Low"}
                               THEN payload.priority ELSE "Low"
            /\ "description" \notin DOMAIN payload => task.description = ""
            /\ "deadline" \notin DOMAIN payload => task.deadline = JsNull]_vars

\* A create whose payload asks for a priority outside the three.
C11_Witness ==
    /\ Created
    /\ Prop(request.body.obj, "priority") = "Urgent"
    /\ tasks[Len(tasks)].priority = "Low"
    /\ tasks[Len(tasks)].description = "" /\ tasks[Len(tasks)].deadline = JsNull

\* C12: an id deleted since the last create is in no result of getTasks,
\* whatever the sortBy and the filter, and in no list a GET returns; a further
\* DELETE of it is answered not found (deleteTask returns false) and changes
\* neither the collection nor nextId.
C12_DeletedIdStaysGone ==
    [][/\ \A id \in deletedIds' : \A sortBy \in QuerySortBys, filter \in QueryFilters :
              id \notin Ids(getTasks(tasks', sortBy, filter))
       /\ (request'.method = "GET" /\ request'.path = TasksPath) =>
              \A i \in 1..Len(response'.body) : response'.body[i].id \notin deletedIds'
       /\ (CallsDelete(request') /\ request'.id \in deletedIds) =>
              /\ repoResult' = "false"
              /\ response' = Message(404, "Task not found")
              /\ tasks' = tasks
              /\ nextId' = nextId]_vars

\* The second DELETE of an id, with no create in between, on a collection
\* that still holds a task beside the deleted one.
C12_Witness ==
    /\ CallsDelete(request) /\ request.id \in deletedIds
    /\ response.status = 404
    /\ Len(tasks) = 1 /\ request.id < tasks[1].id

\* C13: a complete on a task of the collection is answered 200 with that
\* task, whose status is now Completed and whose other fields are as before;
\* every other task, the order and nextId are unchanged.  A complete of the
\* same id right after it is answered the same and leaves the state it found.
C13_CompleteSetsStatusOnly ==
    [][(CallsComplete(request') /\ request'.id \in Ids(tasks)) =>
        /\ nextId' = nextId
        /\ Len(tasks') = Len(tasks)
        /\ \A i \in 1..Len(tasks) :
              IF tasks[i].id = request'.id
              THEN /\ tasks'[i] = [tasks[i] EXCEPT !.status = "Completed"]
                   /\ response' = Json(200, <<toJSON(tasks'[i])>>)
              ELSE tasks'[i] = tasks[i]
        /\ LET again == markCompleted(tasks', request'.id) IN
              again.found /\ again.tasks = tasks' /\ again.task = response'.body[1]
        /\ (CallsComplete(request) /\ response.status = 200 /\ request.id = request'.id) =>
              tasks' = tasks /\ response' = response]_vars

\* A complete that found a task whose other fields are not the
\* constructor's defaults, with a task still to do beside it.
C13_Witness ==
    /\ CallsComplete(request) /\ response.status = 200
    /\ Len(tasks) = 2
    /\ \E i, j \in 1..Len(tasks) :
          /\ tasks[i].id = request.id
          /\ tasks[i] = [id |-> request.id, title |-> "b", description |-> "d",
                         deadline |-> "2024-01-01", priority |-> "High",
                         status |-> "Completed"]
          /\ tasks[j].status = "ToDo"

\* C18: the step that handles SIGINT or SIGTERM ends the process and leaves
\* in tasks.json, when the write succeeds, an array with one object for each
\* task of the collection, in the collection's order and with the task's id,
\* title, description, deadline, priority and status.
C18_SignalSavesCollection ==
    [][(running /\ request'.method = "SIGNAL") =>
        /\ ~running'
        /\ tasksFile'.kind = "array"
        /\ Len(tasksFile'.data) = Len(tasks)
        /\ \A i \in 1..Len(tasks) :
              tasksFile'.data[i] =
                  [id |-> tasks[i].id, title |-> tasks[i].title,
                   description |-> tasks[i].description,
                   deadline |-> tasks[i].deadline,
                   priority |-> tasks[i].priority, status |-> tasks[i].status]]_vars

\* A process stopped by a signal once it had held two tasks, deleted the
\* first and completed the second.
C18_Witness ==
    /\ ~running /\ request.method = "SIGNAL"
    /\ Len(tasks) = 1 /\ tasks[1].id = 2 /\ tasks[1].status = "Completed"
    /\ lifeIds = {1, 2}
    /\ tasksFile.kind = "array" /\ Len(tasksFile.data) = 1

Listed == request.method = "GET" /\ request.path = TasksPath

\* The ids of the tasks of the collection that satisfy a condition.
IdsWhere(Cond(_)) == {tasks[i].id : i \in {j \in 1..Len(tasks) : Cond(tasks[j])}}

\* The list holds each of its tasks once, as the collection has it.
ListsTasksOnce(list) ==
    /\ \A i \in 1..Len(list) :
          PositionOf(list[i].id) # 0 /\ list[i] = toJSON(tasks[PositionOf(list[i].id)])
    /\ \A i, j \in 1..Len(list) : i # j => list[i].id # list[j].id

\* The list is in collection order.
InCollectionOrder(list) ==
    \A i, j \in 1..Len(list) : i < j => PositionOf(list[i].id) < PositionOf(list[j].id)

\* C14: the list a GET /tasks returns holds, each once, exactly the tasks
\* whose status is Completed for filter completed, exactly the other tasks
\* for not-completed and exactly the tasks of priority High for
\* high-priority, in collection order when no sort is asked for; for every
\* collection the completed and the not-completed results of getTasks share
\* no task and together have as many tasks as the collection.
C14_FiltersSelectExactly ==
    /\ Listed =>
          /\ ListsTasksOnce(response.body)
          /\ request.filter = "completed" =>
                Ids(response.body) = IdsWhere(LAMBDA t : t.status = "Completed")
          /\ request.filter = "not-completed" =>
                Ids(response.body) = IdsWhere(LAMBDA t : t.status # "Completed")
          /\ request.filter = "high-priority" =>
                Ids(response.body) = IdsWhere(LAMBDA t : t.priority = "High")
          /\ request.sortBy = Undefined => InCollectionOrder(response.body)
    /\ LET done == getTasks(tasks, Undefined, "completed")
           rest == getTasks(tasks, Undefined, "not-completed")
       IN  /\ Ids(done) \cap Ids(rest) = {}
           /\ Len(done) + Len(rest) = Len(tasks)

\* A high-priority list of two tasks that leaves out a Medium task.
C14_Witness ==
    /\ Listed /\ request.filter = "high-priority" /\ request.sortBy = Undefined
    /\ Len(tasks) = 3 /\ Len(response.body) = 2
    /\ \E i \in 1..Len(tasks) : tasks[i].priority = "Medium"

\* The list sorted as Array.prototype.sort sorts it with the comparator of
\* that sortBy, and left as it is for a sortBy that has none.
SortedBy(list, sortBy) ==
    IF sortBy \in {"deadline", "priority"} THEN ArraySort(list, sortBy) ELSE list

\* C19: for every collection, sortBy and filter, the list a GET /tasks
\* returns is the result of getTasks for that filter alone, sorted by the
\* sortBy; and the tasks getTasks returns are the same for every sortBy.
C19_SortAppliesToFilteredList ==
    /\ Listed =>
          LET filtered == getTasks(tasks, Undefined, request.filter) IN
          response.body = [i \in 1..Len(filtered) |->
                              toJSON(SortedBy(filtered, request.sortBy)[i])]
    /\ \A filter \in QueryFilters, sortBy \in QuerySortBys :
          /\ Ids(getTasks(tasks, sortBy, filter)) = Ids(getTasks(tasks, Undefined, filter))
          /\ Len(getTasks(tasks, sortBy, filter)) = Len(getTasks(tasks, Undefined, filter))

\* A sorted list of the tasks still to do, which are not all the tasks and
\* which the sort puts in another order than the collection's.
C19_Witness ==
    /\ Listed /\ request.filter = "not-completed" /\ request.sortBy = "priority"
    /\ Len(tasks) = 3 /\ Len(response.body) = 2
    /\ ~InCollectionOrder(response.body)

\* C20: a GET /tasks is answered 200; with no filter, or one getTasks does
\* not know, its list holds every task of the collection once, and with no
\* sortBy, or one getTasks does not know, its list is in collection order.
C20_UnknownQueryValuesIgnored ==
    Listed =>
        /\ response.status = 200
        /\ request.filter \notin {"completed", "not-completed", "high-priority"} =>
              /\ ListsTasksOnce(response.body)
              /\ Ids(response.body) = Ids(tasks)
        /\ request.sortBy \notin {"deadline", "priority"} =>
              InCollectionOrder(response.body)

\* A list asked for with a filter and a sortBy that getTasks does not know.
C20_Witness ==
    /\ Listed /\ request.filter = "bogus" /\ request.sortBy = "title"
    /\ Len(response.body) = 2
    /\ response.body[1].title = "c" /\ response.body[2].title = "a"
    /\ response.body[1].status = "Completed"

\* The deadline is a string new Date() reads as a date.
IsDate(deadline) == DateValue(deadline) # -1

\* C15: in the list a GET /tasks?sortBy=deadline returns, no task without a
\* deadline precedes a task that has one, and of two tasks whose deadlines
\* are dates the one listed first has the earlier date or the same.
C15_DeadlineSortOrders ==
    (Listed /\ request.sortBy = "deadline") =>
        \A i, j \in 1..Len(response.body) :
            i < j =>
                LET a == response.body[i]
                    b == response.body[j]
                IN  /\ a.deadline = JsNull => b.deadline = JsNull
                    /\ (IsDate(a.deadline) /\ IsDate(b.deadline)) =>
                          DateValue(a.deadline) <= DateValue(b.deadline)

\* C16: a process started on the directory where the process before it
\* saved its collection has a collection of the same length, whose tasks
\* have, position by position, the id, title, description, deadline,
\* priority and status of the saved ones.
C16_SaveThenLoadRoundTrips ==
    [][(~running /\ request.method = "SIGNAL" /\ running') =>
        /\ Len(tasks') = Len(tasks)
        /\ \A i \in 1..Len(tasks) :
              /\ DOMAIN tasks'[i] = DOMAIN tasks[i]
              /\ \A f \in {"id", "title", "description", "deadline", "priority",
                            "status"} : tasks'[i][f] = tasks[i][f]]_vars

\* A process started on a saved collection of a completed task with every
\* field set and a task with no deadline.
C16_Witness ==
    /\ running /\ request.method = "START"
    /\ Len(tasks) = 2
    /\ tasks[1] = [id |-> 1, title |-> "b", description |-> "d",
                   deadline |-> "2024-01-01", priority |-> "High",
                   status |-> "Completed"]
    /\ tasks[2].deadline = JsNull /\ tasks[2].status = "ToDo"

\* An object of the file that is a task record: it has an id and a title.
IsTaskRecord(o) == {"id", "title"} \subseteq DOMAIN o

\* C17: a process that has just started has an empty collection and nextId
\* 1 if tasks.json was absent, was not parseable or was not an array of task
\* records; if it was an array of task records the collection has, position
\* by position, the fields of the file's records, and nextId is the largest
\* id plus 1, or 1 for the empty array.
C17_InitializationOutcome ==
    (running /\ request.method = "START") =>
        IF /\ tasksFile.kind = "array"
           /\ \A i \in 1..Len(tasksFile.data) : IsTaskRecord(tasksFile.data[i])
        THEN /\ Len(tasks) = Len(tasksFile.data)
             /\ \A i \in 1..Len(tasks) :
                   \A f \in DOMAIN tasksFile.data[i] : tasks[i][f] = tasksFile.data[i][f]
             /\ \A i \in 1..Len(tasks) : nextId > tasks[i].id
             /\ \/ Len(tasks) = 0 /\ nextId = 1
                \/ \E i \in 1..Len(tasks) : nextId = tasks[i].id + 1
        ELSE tasks = <<>> /\ nextId = 1

\* C21: a GET /tasks, whatever its sortBy and filter, leaves the collection
\* (its tasks, their fields and their order) and nextId as they were; and
\* the list a GET with no sortBy and no filter returns right after a sorted
\* list is the collection in insertion order, that is by increasing id.
C21_GetTasksLeavesStore ==
    [][Listed' =>
        /\ tasks' = tasks
        /\ nextId' = nextId
        /\ (Listed /\ request.sortBy \in {"deadline", "priority"}
               /\ request'.sortBy = Undefined /\ request'.filter = Undefined) =>
              /\ response'.body = [i \in 1..Len(tasks) |-> toJSON(tasks[i])]
              /\ \A i, j \in 1..Len(response'.body) :
                    i < j => response'.body[i].id < response'.body[j].id]_vars

\* A sorted list, with no filter, whose order is not the collection's, of a
\* collection that is still in insertion order.
C21_Witness ==
    /\ Listed /\ request.sortBy = "priority" /\ request.filter = Undefined
    /\ Len(tasks) = 3 /\ Len(response.body) = 3
    /\ ~InCollectionOrder(response.body)
    /\ \A i, j \in 1..Len(tasks) : i < j => tasks[i].id < tasks[j].id

SaveFailed(req, res) == req.method = "SAVE" /\ res.message = "Error saving tasks:"

\* C22: a save whose write fails returns to a process that goes on, with
\* the collection and nextId as they were; the request that
\* follows it is served from that collection: a create gets nextId as its id
\* and is appended, an update and a delete find the task they name, and a
\* list returns every task in order.
C22_FailedSaveIsContained ==
    [][/\ SaveFailed(request', response') =>
            /\ running'
            /\ tasks' = tasks
            /\ nextId' = nextId
       /\ (SaveFailed(request, response) /\ ~SaveFailed(request', response')) =>
            /\ running'
            /\ Created' =>
                  /\ response'.body[1].id = nextId /\ nextId' = nextId + 1
                  /\ tasks' = Append(tasks, response'.body[1])
            /\ (request'.method \in {"PUT", "DELETE"}) =>
                  (response'.status # 404 <=> request'.id \in Ids(tasks))
            /\ Listed' =>
                  response'.body = [i \in 1..Len(tasks) |-> toJSON(tasks[i])]]_vars

\* A save that failed on a collection of two tasks, one of them updated,
\* after an earlier save had written one task.
C22_Witness ==
    /\ SaveFailed(request, response) /\ running
    /\ Len(tasks) = 2 /\ tasks[1].title = "c"
    /\ tasksFile.kind = "array" /\ Len(tasksFile.data) = 1

\* C23: with handlers suspended at their await while other requests are
\* served, every step that changes the collection or nextId is one whole
\* store operation applied to the store as the step found it (the addTask of
\* a create, which appends a task with id nextId and advances nextId by one,
\* or the updateTask, deleteTask or markCompleted of the request), so the
\* store is what the requests' operations give in the order of those steps;
\* a list returns the collection as it is; no step changes a handler that
\* stays suspended; and no two tasks of the collection share an id, every
\* created task being in the collection after its create.
C23_StoreOperationsAreAtomic ==
    [][/\ (tasks' # tasks \/ nextId' # nextId) =>
            \/ /\ Created'
               /\ response'.body[1].id = nextId /\ nextId' = nextId + 1
               /\ response'.body[1].id \notin everIds
               /\ tasks' = Append(tasks, response'.body[1])
            \/ /\ CallsUpdate(request') /\ nextId' = nextId
               /\ tasks' = updateTask(tasks, request'.id, PutUpdates(request'.body)).tasks
            \/ /\ CallsDelete(request') /\ nextId' = nextId
               /\ tasks' = deleteTask(tasks, request'.id).tasks
            \/ /\ CallsComplete(request') /\ nextId' = nextId
               /\ tasks' = markCompleted(tasks, request'.id).tasks
       /\ Listed' => response'.body = [i \in 1..Len(tasks) |-> toJSON(tasks[i])]
       /\ \A h \in BagToSet(pending') :
            h \in BagToSet(pending) \/ (pending' = pending (+) SetToBag({h}))
       /\ \A i, j \in 1..Len(tasks') : i # j => tasks'[i].id # tasks'[j].id]_vars

\* A create served while the handler of a POST /tasks that arrived before
\* it, when nextId was 1, is still suspended beside another handler.
C23_Witness ==
    /\ Created /\ response.body[1].id = 2
    /\ BagCardinality(pending) = 2
    /\ \E h \in BagToSet(pending) : h.method = "POST" /\ h.arrivedAt = 1

\* C24: the task an addTask call returns and stores has as its id the value
\* nextId had before the call, whatever the data object holds, an id
\* included, and the call advances nextId by exactly one.
C24_AddTaskAssignsNextId ==
    [][request'.method = "addTask" =>
        /\ nextId' = nextId + 1
        /\ Len(tasks') = Len(tasks) + 1
        /\ tasks'[Len(tasks')].id = nextId
        /\ response'.body[1].id = nextId]_vars

\* C25: a PUT or a DELETE changes the collection only if its path is
\* /tasks/{id}; sent to /tasks/{id}/complete it leaves the collection as it
\* was and is answered 404 'Not found'.
C25_PutAndDeleteRouteOnExactPath ==
    [][request'.method \in {"PUT", "DELETE"} =>
        /\ tasks' # tasks => request'.path = ItemPath
        /\ request'.path = CompletePath =>
              tasks' = tasks /\ response' = Message(404, "Not found")]_vars

\* The ids of the tasks, in collection order.
IdSeq(ts) == [i \in 1..Len(ts) |-> ts[i].id]

\* C26: a create leaves every task where it was and puts the new one after
\* the last; an update or a complete that finds its task leaves the length
\* and the ids at every position as they were; a delete that finds its task
\* removes the one task at that position and leaves the tasks before it
\* where they were and the tasks after it one position earlier, in their
\* order.
C26_MutationsKeepInsertionOrder ==
    [][/\ Created' =>
            /\ Len(tasks') = Len(tasks) + 1
            /\ \A i \in 1..Len(tasks) : tasks'[i] = tasks[i]
            /\ tasks'[Len(tasks')] = response'.body[1]
       /\ ((CallsUpdate(request') \/ CallsComplete(request')) /\ response'.status = 200) =>
            IdSeq(tasks') = IdSeq(tasks)
       /\ (CallsDelete(request') /\ response'.status = 204) =>
            /\ Len(tasks') = Len(tasks) - 1
            /\ \E k \in 1..Len(tasks) :
                  /\ tasks[k].id = request'.id
                  /\ \A i \in 1..Len(tasks') :
                        tasks'[i] = IF i < k THEN tasks[i] ELSE tasks[i + 1]]_vars

\* A delete of the first of three tasks, the second of which was updated
\* and the third completed.
C26_Witness ==
    /\ CallsDelete(request) /\ response.status = 204 /\ request.id = 1
    /\ IdSeq(tasks) = <<2, 3>>
    /\ tasks[1].title = "c" /\ tasks[2].status = "Completed"

====
